---- MODULE Spec2Model ----
(***************************************************************************)
(* Model of bpa_v2.core.database.repositories.Repository bound to one      *)
(* SQLAlchemy session over one table.                                      *)
(*                                                                         *)
(* The entity type is Usuario restricted to the columns id, username       *)
(* (unique, not null), role (not null, default "usuario"), created_at and  *)
(* updated_at.  The session is the pair (store, committed): store is what  *)
(* the open transaction sees (every repository method flushes before it    *)
(* returns), committed is the durable content that rollback() goes back    *)
(* to.  Identifiers come from a sequence that rollback does not rewind.    *)
(*                                                                         *)
(* Every repository method is an operator from the session and the         *)
(* method's arguments to the set of outcomes the method can have; the      *)
(* action of the method picks the arguments and one outcome.  A store      *)
(* failure is an input of the method (fault): "query" makes the lookup     *)
(* statement of the method fail, "flush" makes the write (flush, refresh   *)
(* or commit) or the transaction call of rollback, begin_transaction and   *)
(* close fail.  The session.rollback() of an except block succeeds.        *)
(* Session.commit() and Session.rollback() act on the outermost            *)
(* transaction (SQLAlchemy 2.0): a SAVEPOINT opened by begin_nested() does *)
(* not change what they commit or discard.                                 *)
(*                                                                         *)
(* A call leaves its record (op, args, ret, err, rb, hit, pre) for the     *)
(* properties to read; Return hands the result to the caller and clears    *)
(* the record, Tick lets the clock advance between two calls.              *)
(*                                                                         *)
(* bpa_v2.utils.async_utils is modelled next to it: rt holds the locals of *)
(* one call of retry_sync / retry_async, stepped statement by statement    *)
(* under RetrySpec, and gw holds one call of gather_with_concurrency with  *)
(* its semaphore and the tasks it was given, stepped at every point where  *)
(* the event loop can switch tasks, under GatherSpec.  The tasks given are *)
(* coroutine objects: each starts to execute when sem_task awaits it.      *)
(*                                                                         *)
(* bpa_v2.core.database.base_model.Database is modelled under              *)
(* DatabaseSpec: db holds the class attribute _instance, the objects       *)
(* created and the threads that are constructing Database, each stepped    *)
(* statement by statement through __new__ and __init__ (the class takes no *)
(* lock, and run_in_thread runs callers on pool threads).                  *)
(*                                                                         *)
(* Under ConcurrentSpec cc holds two repositories bound to two sessions    *)
(* over one store, each running one upsert and then commit.  The store is  *)
(* the one create_engine connects to with its default isolation level,     *)
(* READ COMMITTED: a statement sees the committed rows and the rows of its *)
(* own transaction; a write that meets an uncommitted write of the other   *)
(* transaction on the same row or the same unique value waits for it.      *)
(***************************************************************************)
EXTENDS Integers, Sequences, FiniteSets, TLC

VARIABLES
    store,      \* rows visible in the session's open transaction
    committed,  \* rows durably committed
    nextId,     \* next value of the table's id sequence
    now,        \* last value datetime.utcnow() returned
    op,         \* name of the last repository method called
    args,       \* its arguments (and the injected fault)
    ret,        \* its return value, when it returned
    err,        \* the exception it raised: "none", "DatabaseError" or another name
    rb,         \* how many times it called session.rollback()
    hit,        \* whether a statement of its try block raised
    pre,        \* store when it was called
    calls,      \* the session's transaction calls and the nested upsert calls it made
    first,      \* the call before it, when the caller went straight on
    rt,         \* the running call of retry_sync / retry_async
    gw,         \* the running call of gather_with_concurrency
    db,         \* the Database class, its instances and the threads constructing it
    cc          \* two repositories on separate sessions over one store

repository == <<store, committed, nextId, now, op, args, ret, err, rb, hit, pre, calls, first>>

vars == <<repository, rt, gw, db, cc>>

-----------------------------------------------------------------------------
(* Bounds *)

\* Identifiers the sequence can hand out.
MaxId == 2
\* Last clock value.
MaxClock == 1
\* Longest item list of a bulk call.
MaxBatch == 2
\* Largest max_retries passed to a retry helper.
MaxRetries == 2
\* Most tasks passed to gather_with_concurrency.
MaxTasks == 3
\* Largest concurrency passed to gather_with_concurrency.
MaxConcurrency == 2
\* Threads that construct Database, and constructions they start in all.
MaxThreads == 2
MaxConstructions == 3

-----------------------------------------------------------------------------
(* Entity schema *)

Fields == {"username", "role"}

FieldValues(f) == IF f = "username" THEN {"ana", "bob"} ELSE {"admin", "usuario"}

AllValues == UNION {FieldValues(f) : f \in Fields}

\* Field mappings a caller passes as `data`.
DataDicts ==
    {d \in UNION {[D -> AllValues] : D \in SUBSET Fields} :
        \A f \in DOMAIN d : d[f] \in FieldValues(f)}

\* Lexicographic order of the strings used as column values.
Rank(v) ==
    CASE v = "admin" -> 1
      [] v = "ana" -> 2
      [] v = "bob" -> 3
      [] v = "usuario" -> 4

\* Return value of a method that raised.
NoReturn == <<>>

\* No call on record.
NoCall == [op |-> "idle"]

Faults == {"none", "query", "flush"}

-----------------------------------------------------------------------------
(* The session *)

\* A session value: the three variables a method reads and writes.
Session(st, cm, nid) == [store |-> st, committed |-> cm, nextId |-> nid]

\* What a method call leaves behind: the session, the value returned, the
\* exception raised, the number of session.rollback() calls it made,
\* whether a statement of its try block raised, and the calls it made on the
\* session's transaction and to self.upsert, in order.
Out(S, r, e, n, h) ==
    [store |-> S.store, committed |-> S.committed, nextId |-> S.nextId,
     ret |-> r, err |-> e, rb |-> n, hit |-> h, calls |-> <<>>]

Sess(o) == Session(o.store, o.committed, o.nextId)

\* A rollback that also discards what was committed.
session_rollback_drops_committed(S) == [S EXCEPT !.store = {}, !.committed = {}]

\* session.rollback(): the open transaction is discarded.
session_rollback(S) == [S EXCEPT !.store = S.committed]

\* session.commit(): the open transaction becomes durable.
session_commit(S) == [S EXCEPT !.committed = S.store]

\* Primary key and the unique constraint on username.
ConstraintsOK(rows) ==
    \A r \in rows : \A q \in rows :
        (r.id = q.id \/ r.username = q.username) => r = q

\* username is declared nullable=False and has no default.
NotNullOK(data) == "username" \in DOMAIN data

\* The row an INSERT of model_class(**data) writes: id from the sequence,
\* role from its column default when not given, both timestamps from
\* datetime.utcnow.
NewRow(data, id, t) ==
    [id |-> id,
     username |-> data["username"],
     role |-> IF "role" \in DOMAIN data THEN data["role"] ELSE "usuario",
     created_at |-> t,
     updated_at |-> t]

\* setattr for every key of data, without the hasattr test.
ApplyData_all_keys(e, data) ==
    [k \in DOMAIN e \cup DOMAIN data |-> IF k \in DOMAIN data THEN data[k] ELSE e[k]]

\* for key, value in data.items(): if hasattr(entity, key): setattr(...)
ApplyData(e, data) ==
    [k \in DOMAIN e |-> IF k \in DOMAIN data THEN data[k] ELSE e[k]]

\* One condition of a filter set: value.in_(list) for a list, == for a scalar.
\* A filter value is [isList, vals]; a scalar v is held as vals = {v}.
Condition(row, key, value) ==
    IF value.isList
    THEN row[key] \in value.vals
    ELSE \A v \in value.vals : row[key] = v

\* or_(*conditions) in place of and_(*conditions).
Matches_any(row, filters) ==
    \E key \in DOMAIN filters : Condition(row, key, filters[key])

\* and_(*conditions)
Matches(row, filters) ==
    \A key \in DOMAIN filters : Condition(row, key, filters[key])

Matching(rows, filters) == {r \in rows : Matches(r, filters)}

Scalar(v) == [isList |-> FALSE, vals |-> {v}]

ListOf(vs) == [isList |-> TRUE, vals |-> vs]

\* Python truthiness of an Optional[int] held as <<>> (None) or <<n>>.
Truthy(o) == o /= <<>> /\ o[1] /= 0

\* All orders in which the store may return a set of rows.
Perms(rows) ==
    {s \in [1..Cardinality(rows) -> rows] :
        \A i \in DOMAIN s : \A j \in DOMAIN s : s[i] = s[j] => i = j}

\* ORDER BY key ASC whatever `descending` says.
Ordered_ascending_only(s, key, descending) ==
    \A i \in DOMAIN s : \A j \in DOMAIN s :
        i < j => Rank(s[i][key]) <= Rank(s[j][key])

\* ORDER BY key ASC / DESC; rows equal on key come in any order.
Ordered(s, key, descending) ==
    \A i \in DOMAIN s : \A j \in DOMAIN s :
        i < j => IF descending
                 THEN Rank(s[i][key]) >= Rank(s[j][key])
                 ELSE Rank(s[i][key]) <= Rank(s[j][key])

Min(a, b) == IF a <= b THEN a ELSE b

\* OFFSET off LIMIT lim applied to a result sequence (lim < 0: no LIMIT).
Page(s, lim, off) ==
    LET last == IF lim < 0 THEN Len(s) ELSE Min(Len(s), off + lim)
    IN  SubSeq(s, off + 1, last)

-----------------------------------------------------------------------------
(* Repository methods *)

\* The except block re-raises what the nested call raised, without rollback.
Handler_reraise(o) ==
    [Out(Sess(o), NoReturn, o.err, o.rb, TRUE) EXCEPT !.calls = o.calls]

\* except Exception of a mutating method around a nested call that raised:
\* session.rollback(), then raise DatabaseError.
Handler(o) ==
    [Out(session_rollback(Sess(o)), NoReturn, "DatabaseError", o.rb + 1, TRUE)
        EXCEPT !.calls = Append(o.calls, "rollback")]

\* A handler that undoes only what the failing method wrote.
Raise_undoes_own_writes(S) ==
    [Out(S, NoReturn, "DatabaseError", 1, TRUE) EXCEPT !.calls = <<"rollback">>]

\* except Exception of a mutating method around a failed store call.
Raise(S) ==
    [Out(session_rollback(S), NoReturn, "DatabaseError", 1, TRUE)
        EXCEPT !.calls = <<"rollback">>]

\* A read whose except block rolls the session back.
RaiseRead_with_rollback(S) ==
    [Out(session_rollback(S), NoReturn, "DatabaseError", 1, TRUE)
        EXCEPT !.calls = <<"rollback">>]

\* except Exception of a read method: raise DatabaseError, no rollback.
RaiseRead(S) == Out(S, NoReturn, "DatabaseError", 0, TRUE)

get_by_id(S, entity_id, fault) ==
    IF fault = "query"
    THEN {RaiseRead(S)}
    ELSE LET found == {r \in S.store : r.id = entity_id}
         IN  IF found = {}
             THEN {Out(S, <<>>, "none", 0, FALSE)}
             ELSE {Out(S, <<r>>, "none", 0, FALSE) : r \in found}

\* get_all: every row, in the order the store returns them.
get_all(S, fault) ==
    IF fault = "query"
    THEN {RaiseRead(S)}
    ELSE {Out(S, s, "none", 0, FALSE) : s \in Perms(S.store)}

\* getattr(self.model_class, key) finds a column.
HasAttr(key) == key \in Fields

\* Some key of the filter set is no attribute of the entity type.
BadKeys(filters) == \E key \in DOMAIN filters : ~HasAttr(key)

\* get_by_filters that leaves out the conditions and the ordering on names
\* the entity type does not have.
get_by_filters_skips_unknown(S, filters, order_by, limit, offset, descending, fault) ==
    IF fault = "query"
    THEN {RaiseRead(S)}
    ELSE LET known == [k \in {x \in DOMAIN filters : HasAttr(x)} |-> filters[k]]
             rows == IF DOMAIN known /= {}
                     THEN Matching(S.store, known)
                     ELSE S.store
             seqs == IF order_by /= <<>> /\ HasAttr(order_by[1])
                     THEN {s \in Perms(rows) : Ordered(s, order_by[1], descending)}
                     ELSE Perms(rows)
             lim  == IF Truthy(limit) THEN limit[1] ELSE -1
             off  == IF Truthy(offset) THEN offset[1] ELSE 0
         IN  {Out(S, Page(s, lim, off), "none", 0, FALSE) : s \in seqs}

get_by_filters(S, filters, order_by, limit, offset, descending, fault) ==
    IF fault = "query" \/ BadKeys(filters)
       \/ (order_by /= <<>> /\ ~HasAttr(order_by[1]))
    THEN {RaiseRead(S)}
    ELSE LET rows == IF DOMAIN filters /= {}
                     THEN Matching(S.store, filters)
                     ELSE S.store
             seqs == IF order_by /= <<>>
                     THEN {s \in Perms(rows) : Ordered(s, order_by[1], descending)}
                     ELSE Perms(rows)
             lim  == IF Truthy(limit) THEN limit[1] ELSE -1
             off  == IF Truthy(offset) THEN offset[1] ELSE 0
         IN  {Out(S, Page(s, lim, off), "none", 0, FALSE) : s \in seqs}

\* count that leaves the filter out of the query.
count_without_filter(S, filters, fault) ==
    IF fault = "query" \/ (filters /= <<>> /\ BadKeys(filters[1]))
    THEN {RaiseRead(S)}
    ELSE {Out(S, Cardinality(S.store), "none", 0, FALSE)}

\* filters is <<>> (None) or <<filter set>>; `if filters:` skips None and {}.
count(S, filters, fault) ==
    IF fault = "query" \/ (filters /= <<>> /\ BadKeys(filters[1]))
    THEN {RaiseRead(S)}
    ELSE LET rows == IF filters /= <<>> /\ DOMAIN filters[1] /= {}
                     THEN Matching(S.store, filters[1])
                     ELSE S.store
         IN  {Out(S, Cardinality(rows), "none", 0, FALSE)}

\* model_class(**data): a transient entity holding the given fields.
model_class(data) == [k \in DOMAIN data |-> data[k]]

\* The fault a nested lookup sees.
QueryFault(fault) == IF fault = "query" THEN "query" ELSE "none"

\* create without session.add(entity): the entity is returned but never written.
create_without_add(S, data, isDict, t, fault) ==
    LET entity == IF isDict THEN model_class(data) ELSE data
    IN  IF fault = "none" /\ NotNullOK(entity)
           /\ ConstraintsOK(S.store \cup {NewRow(entity, S.nextId, t)})
        THEN {Out([S EXCEPT !.nextId = @ + 1],
                  NewRow(entity, S.nextId, t), "none", 0, FALSE)}
        ELSE {Raise(S)}

\* data is a field mapping (isDict) or an entity the caller constructed.
create(S, data, isDict, t, fault) ==
    LET entity == IF isDict THEN model_class(data) ELSE data
    IN  IF fault = "none" /\ NotNullOK(entity)
           /\ ConstraintsOK(S.store \cup {NewRow(entity, S.nextId, t)})
        THEN LET row == NewRow(entity, S.nextId, t)
             IN  {Out([S EXCEPT !.store = @ \cup {row}, !.nextId = @ + 1],
                      row, "none", 0, FALSE)}
        ELSE {Raise(S)}

\* The INSERTs of one flush, in list order, up to the first one the store
\* rejects.
RECURSIVE InsertAll(_, _, _, _)
InsertAll(rows, items, id, t) ==
    IF items = <<>>
    THEN [store |-> rows, ok |-> TRUE]
    ELSE IF NotNullOK(Head(items))
            /\ ConstraintsOK(rows \cup {NewRow(Head(items), id, t)})
         THEN InsertAll(rows \cup {NewRow(Head(items), id, t)},
                        Tail(items), id + 1, t)
         ELSE [store |-> rows, ok |-> FALSE]

\* bulk_create whose except block does not call session.rollback().
bulk_create_without_rollback(S, items, t, fault) ==
    LET flushed == InsertAll(S.store, [i \in DOMAIN items |-> model_class(items[i])],
                             S.nextId, t)
        entities == [i \in DOMAIN items |-> NewRow(items[i], S.nextId + i - 1, t)]
    IN  IF fault = "none" /\ flushed.ok
        THEN {Out([S EXCEPT !.store = flushed.store, !.nextId = @ + Len(items)],
                  entities, "none", 0, FALSE)}
        ELSE {Out([S EXCEPT !.store = flushed.store], NoReturn, "DatabaseError",
                  0, TRUE)}

bulk_create(S, items, t, fault) ==
    LET flushed == InsertAll(S.store, [i \in DOMAIN items |-> model_class(items[i])],
                             S.nextId, t)
        entities == [i \in DOMAIN items |-> NewRow(items[i], S.nextId + i - 1, t)]
    IN  IF fault = "none" /\ flushed.ok
        THEN {Out([S EXCEPT !.store = flushed.store, !.nextId = @ + Len(items)],
                  entities, "none", 0, FALSE)}
        ELSE {Raise([S EXCEPT !.store = flushed.store])}

\* The entity with the fields of data set and updated_at = utcnow(), flushed.
\* Used by update and by the update branch of upsert.
WriteBack(S, entity, data, t, fault) ==
    LET row == [ApplyData(entity, data) EXCEPT !.updated_at = t]
        rows == (S.store \ {entity}) \cup {row}
    IN  IF fault /= "flush" /\ ConstraintsOK(rows)
        THEN [ok |-> TRUE, store |-> rows, row |-> row]
        ELSE [ok |-> FALSE, store |-> rows, row |-> row]

\* update that returns early on an empty change set.
update_skips_empty_data(S, entity_id, data, t, fault) ==
    UNION {
        IF o.err /= "none" THEN {Handler(o)}
        ELSE IF o.ret = <<>> THEN {Out(S, <<>>, "none", 0, FALSE)}
        ELSE IF DOMAIN data = {} THEN {Out(S, o.ret, "none", 0, FALSE)}
        ELSE LET w == WriteBack(S, o.ret[1], data, t, fault)
             IN  IF w.ok
                 THEN {Out([S EXCEPT !.store = w.store], <<w.row>>, "none", 0, FALSE)}
                 ELSE {Raise(S)}
        : o \in get_by_id(S, entity_id, QueryFault(fault))}

\* update that treats an absent identifier as a failure.
update_raises_when_absent(S, entity_id, data, t, fault) ==
    UNION {
        IF o.err /= "none" \/ o.ret = <<>> THEN {Handler(o)}
        ELSE LET w == WriteBack(S, o.ret[1], data, t, fault)
             IN  IF w.ok
                 THEN {Out([S EXCEPT !.store = w.store], <<w.row>>, "none", 0, FALSE)}
                 ELSE {Raise(S)}
        : o \in get_by_id(S, entity_id, QueryFault(fault))}

update(S, entity_id, data, t, fault) ==
    UNION {
        IF o.err /= "none" THEN {Handler(o)}
        ELSE IF o.ret = <<>> THEN {Out(S, <<>>, "none", 0, FALSE)}
        ELSE LET w == WriteBack(S, o.ret[1], data, t, fault)
             IN  IF w.ok
                 THEN {Out([S EXCEPT !.store = w.store], <<w.row>>, "none", 0, FALSE)}
                 ELSE {Raise(S)}
        : o \in get_by_id(S, entity_id, QueryFault(fault))}

\* delete that reports success without session.delete(entity).
delete_without_removal(S, entity_id, fault) ==
    UNION {
        IF o.err /= "none" THEN {Handler(o)}
        ELSE IF o.ret = <<>> THEN {Out(S, FALSE, "none", 0, FALSE)}
        ELSE IF fault = "flush" THEN {Raise(S)}
        ELSE {Out(S, TRUE, "none", 0, FALSE)}
        : o \in get_by_id(S, entity_id, QueryFault(fault))}

delete(S, entity_id, fault) ==
    UNION {
        IF o.err /= "none" THEN {Handler(o)}
        ELSE IF o.ret = <<>> THEN {Out(S, FALSE, "none", 0, FALSE)}
        ELSE IF fault = "flush" THEN {Raise(S)}
        ELSE {Out([S EXCEPT !.store = @ \ {o.ret[1]}], TRUE, "none", 0, FALSE)}
        : o \in get_by_id(S, entity_id, QueryFault(fault))}

delete_many(S, filter_dict, fault) ==
    IF fault /= "none" \/ BadKeys(filter_dict)
    THEN {Raise(S)}
    ELSE LET matched == Matching(S.store, filter_dict)
         IN  {Out([S EXCEPT !.store = @ \ matched], Cardinality(matched),
                  "none", 0, FALSE)}

\* The filter that keeps a unique field missing from data and compares it
\* with a value no entity has.
KeyFilter_keeps_missing(unique_fields, data) ==
    [f \in {unique_fields[i] : i \in DOMAIN unique_fields}
        |-> IF f \in DOMAIN data THEN Scalar(data[f]) ELSE Scalar("NULL")]

\* The filter built from every key of data instead of the unique fields.
KeyFilter_all_keys(unique_fields, data) ==
    [f \in DOMAIN data |-> Scalar(data[f])]

\* filters = {field: data[field] for field in unique_fields if field in data}
KeyFilter(unique_fields, data) ==
    [f \in {unique_fields[i] : i \in DOMAIN unique_fields} \cap DOMAIN data
        |-> Scalar(data[f])]

\* upsert whose update branch writes data to every entity the lookup
\* returned.
upsert_overwrites_all_matches(S, unique_fields, data, t, fault) ==
    UNION {
        IF o.err /= "none" THEN {Handler(o)}
        ELSE IF o.ret /= <<>>
        THEN LET w == WriteBack(S, o.ret[1], data, t, fault)
                 all == {[ApplyData(o.ret[i], data) EXCEPT !.updated_at = t]
                         : i \in DOMAIN o.ret}
                 rows == (S.store \ {o.ret[i] : i \in DOMAIN o.ret}) \cup all
             IN  IF fault /= "flush" /\ ConstraintsOK(rows)
                       /\ Cardinality(rows) = Cardinality(S.store)
                 THEN {Out([S EXCEPT !.store = rows],
                           [entity |-> w.row, created |-> FALSE], "none", 0, FALSE)}
                 ELSE {Raise(S)}
        ELSE {IF c.err /= "none"
              THEN Handler(c)
              ELSE Out(Sess(c), [entity |-> c.ret, created |-> TRUE], "none", 0, FALSE)
              : c \in create(S, data, TRUE, t, IF fault = "flush" THEN "flush" ELSE "none")}
        : o \in get_by_filters(S, KeyFilter(unique_fields, data),
                               <<>>, <<>>, <<>>, FALSE, QueryFault(fault))}

\* upsert whose update branch returns (entity, True).
upsert_reports_created(S, unique_fields, data, t, fault) ==
    UNION {
        IF o.err /= "none" THEN {Handler(o)}
        ELSE IF o.ret /= <<>>
        THEN LET w == WriteBack(S, o.ret[1], data, t, fault)
             IN  IF w.ok
                 THEN {Out([S EXCEPT !.store = w.store],
                           [entity |-> w.row, created |-> TRUE], "none", 0, FALSE)}
                 ELSE {Raise(S)}
        ELSE {IF c.err /= "none"
              THEN Handler(c)
              ELSE Out(Sess(c), [entity |-> c.ret, created |-> TRUE], "none", 0, FALSE)
              : c \in create(S, data, TRUE, t, IF fault = "flush" THEN "flush" ELSE "none")}
        : o \in get_by_filters(S, KeyFilter(unique_fields, data),
                               <<>>, <<>>, <<>>, FALSE, QueryFault(fault))}

upsert(S, unique_fields, data, t, fault) ==
    UNION {
        IF o.err /= "none" THEN {Handler(o)}
        ELSE IF o.ret /= <<>>
        THEN LET w == WriteBack(S, o.ret[1], data, t, fault)
             IN  IF w.ok
                 THEN {Out([S EXCEPT !.store = w.store],
                           [entity |-> w.row, created |-> FALSE], "none", 0, FALSE)}
                 ELSE {Raise(S)}
        ELSE {IF c.err /= "none"
              THEN Handler(c)
              ELSE Out(Sess(c), [entity |-> c.ret, created |-> TRUE], "none", 0, FALSE)
              : c \in create(S, data, TRUE, t, IF fault = "flush" THEN "flush" ELSE "none")}
        : o \in get_by_filters(S, KeyFilter(unique_fields, data),
                               <<>>, <<>>, <<>>, FALSE, QueryFault(fault))}

\* n calls of self.upsert.
Upserts(n) == [i \in 1..n |-> "upsert"]

\* created += 1 for every item, also for the updated ones.
RECURSIVE bulk_upsert_loop_miscount(_, _, _, _, _, _, _)
bulk_upsert_loop_miscount(S, unique_fields, items, t, fault, failAt, acc) ==
    IF items = <<>>
    THEN {[Out(S, acc, "none", 0, FALSE) EXCEPT !.calls = Upserts(Len(acc.entities))]}
    ELSE UNION {
        IF o.err /= "none"
        THEN {[Handler(o) EXCEPT
                  !.calls = Upserts(Len(acc.entities) + 1) \o Handler(o).calls]}
        ELSE bulk_upsert_loop_miscount(Sess(o), unique_fields, Tail(items), t,
                 fault, failAt - 1,
                 [entities |-> Append(acc.entities, o.ret.entity),
                  created |-> acc.created + 1,
                  updated |-> acc.updated + (IF o.ret.created THEN 0 ELSE 1)])
        : o \in upsert(S, unique_fields, Head(items), t,
                       IF failAt = 1 THEN fault ELSE "none")}

\* bulk_upsert that goes on with the remaining items after an item failed
\* and raises at the end.
RECURSIVE bulk_upsert_loop_continues(_, _, _, _, _, _, _)
bulk_upsert_loop_continues(S, unique_fields, items, t, fault, failAt, acc) ==
    IF items = <<>>
    THEN {[Out(S, acc, "none", 0, FALSE) EXCEPT !.calls = Upserts(Len(acc.entities))]}
    ELSE UNION {
        IF o.err /= "none"
        THEN {[r EXCEPT !.ret = NoReturn, !.err = "DatabaseError", !.hit = TRUE,
                        !.rb = Handler(o).rb,
                        !.calls = Upserts(Len(acc.entities) + 1)
                                      \o Handler(o).calls \o r.calls]
              : r \in bulk_upsert_loop_continues(Sess(Handler(o)), unique_fields,
                          Tail(items), t, fault, failAt - 1,
                          [entities |-> <<>>, created |-> 0, updated |-> 0])}
        ELSE bulk_upsert_loop_continues(Sess(o), unique_fields, Tail(items), t,
                 fault, failAt - 1,
                 [entities |-> Append(acc.entities, o.ret.entity),
                  created |-> acc.created + (IF o.ret.created THEN 1 ELSE 0),
                  updated |-> acc.updated + (IF o.ret.created THEN 0 ELSE 1)])
        : o \in upsert(S, unique_fields, Head(items), t,
                       IF failAt = 1 THEN fault ELSE "none")}

\* The loop of bulk_upsert over the items left; acc is (entities, created,
\* updated) so far and failAt counts down to the item whose upsert fails.
RECURSIVE bulk_upsert_loop(_, _, _, _, _, _, _)
bulk_upsert_loop(S, unique_fields, items, t, fault, failAt, acc) ==
    IF items = <<>>
    THEN {[Out(S, acc, "none", 0, FALSE) EXCEPT !.calls = Upserts(Len(acc.entities))]}
    ELSE UNION {
        IF o.err /= "none"
        THEN {[Handler(o) EXCEPT
                  !.calls = Upserts(Len(acc.entities) + 1) \o Handler(o).calls]}
        ELSE bulk_upsert_loop(Sess(o), unique_fields, Tail(items), t, fault,
                 failAt - 1,
                 [entities |-> Append(acc.entities, o.ret.entity),
                  created |-> acc.created + (IF o.ret.created THEN 1 ELSE 0),
                  updated |-> acc.updated + (IF o.ret.created THEN 0 ELSE 1)])
        : o \in upsert(S, unique_fields, Head(items), t,
                       IF failAt = 1 THEN fault ELSE "none")}

\* bulk_upsert that walks the items from the last to the first.
bulk_upsert_reversed(S, unique_fields, items, t, fault, failAt) ==
    bulk_upsert_loop(S, unique_fields,
                     [i \in DOMAIN items |-> items[Len(items) + 1 - i]],
                     t, fault, failAt,
                     [entities |-> <<>>, created |-> 0, updated |-> 0])

bulk_upsert(S, unique_fields, items, t, fault, failAt) ==
    bulk_upsert_loop(S, unique_fields, items, t, fault, failAt,
                     [entities |-> <<>>, created |-> 0, updated |-> 0])

\* commit whose except block raises without session.rollback().
commit_without_rollback(S, fault) ==
    IF fault /= "none"
    THEN {[Out(S, NoReturn, "DatabaseError", 0, TRUE) EXCEPT !.calls = <<"commit">>]}
    ELSE {[Out(session_commit(S), NoReturn, "none", 0, FALSE)
              EXCEPT !.calls = <<"commit">>]}

commit(S, fault) ==
    IF fault /= "none"
    THEN {[Raise(S) EXCEPT !.calls = <<"commit", "rollback">>]}
    ELSE {[Out(session_commit(S), NoReturn, "none", 0, FALSE)
              EXCEPT !.calls = <<"commit">>]}

\* What a transaction call that raised may have left of the open
\* transaction: all of it or nothing.
AfterFailedCall(S) == {S, session_rollback(S)}

\* rollback: session.rollback(); when that call raises, DatabaseError.
rollback(S, fault) ==
    IF fault /= "none"
    THEN {[Out(A, NoReturn, "DatabaseError", 1, TRUE) EXCEPT !.calls = <<"rollback">>]
          : A \in AfterFailedCall(S)}
    ELSE {[Out(session_rollback(S), NoReturn, "none", 1, FALSE)
              EXCEPT !.calls = <<"rollback">>]}

\* begin_transaction: session.begin_nested() opens a SAVEPOINT.
begin_transaction(S, fault) ==
    IF fault /= "none"
    THEN {[Out(S, NoReturn, "DatabaseError", 0, TRUE) EXCEPT !.calls = <<"begin_nested">>]}
    ELSE {[Out(S, NoReturn, "none", 0, FALSE) EXCEPT !.calls = <<"begin_nested">>]}

\* session.close(): the open transaction is released without commit.
session_close(S) == [S EXCEPT !.store = S.committed]

\* close: session.close(); when that call raises, DatabaseError.
close(S, fault) ==
    IF fault /= "none"
    THEN {[Out(A, NoReturn, "DatabaseError", 0, TRUE) EXCEPT !.calls = <<"close">>]
          : A \in AfterFailedCall(S)}
    ELSE {[Out(session_close(S), NoReturn, "none", 0, FALSE)
              EXCEPT !.calls = <<"close">>]}

-----------------------------------------------------------------------------
(* Database *)

Threads == 1..MaxThreads

\* DatabaseConfig values; the config argument is <<>> (None) or <<c>>.
Configs == {"A", "B"}

OptionalConfigs == {<<>>} \cup {<<c>> : c \in Configs}

\* A thread that is not constructing Database.
NoConstruction == [pc |-> "idle", config |-> <<>>, self |-> 0, result |-> "none"]

\* super().__new__(cls): an object without attributes; initialized is <<>>
\* while the attribute is not set, engines lists the configurations
\* create_engine was assigned for.
NewObject == [initialized |-> <<>>, config |-> <<>>, engines |-> <<>>]

\* The class after import: _instance = None, no object, no thread inside;
\* started, overlapped, first and log record the constructions.
NoDatabase ==
    [instance |-> 0, objs |-> <<>>, th |-> [t \in Threads |-> NoConstruction],
     started |-> 0, overlapped |-> FALSE, first |-> <<>>, log |-> <<>>]

\* The construction of thread t ends: it returns self or raises.
Finish(t, result) == [db EXCEPT !.th[t].pc = "done", !.th[t].result = result]

Goto(t, pc) == [db EXCEPT !.th[t].pc = pc]

\* A thread calls Database(config).
DbCall(t) ==
    /\ db.th[t].pc = "idle"
    /\ db.started < MaxConstructions
    /\ \E config \in OptionalConfigs :
        db' = [db EXCEPT
                  !.th[t] = [pc |-> "new", config |-> config, self |-> 0,
                             result |-> "none"],
                  !.started = @ + 1,
                  !.overlapped = @ \/ \E u \in Threads \ {t} : db.th[u].pc /= "idle"]
    /\ UNCHANGED <<repository, rt, gw, cc>>

\* if cls._instance is None:
DbNewTest(t) ==
    /\ db.th[t].pc = "new"
    /\ db' = Goto(t, IF db.instance = 0 THEN "new_create" ELSE "new_return")
    /\ UNCHANGED <<repository, rt, gw, cc>>

\* cls._instance = super(Database, cls).__new__(cls)
DbNewCreate(t) ==
    /\ db.th[t].pc = "new_create"
    /\ db' = [Goto(t, "new_init") EXCEPT
                 !.objs = Append(@, NewObject),
                 !.instance = Len(db.objs) + 1]
    /\ UNCHANGED <<repository, rt, gw, cc>>

\* cls._instance.initialized = False
DbNewInit(t) ==
    /\ db.th[t].pc = "new_init"
    /\ db' = [Goto(t, "new_return") EXCEPT !.objs[db.instance].initialized = <<FALSE>>]
    /\ UNCHANGED <<repository, rt, gw, cc>>

\* return cls._instance
DbNewReturn(t) ==
    /\ db.th[t].pc = "new_return"
    /\ db' = [Goto(t, "init") EXCEPT !.th[t].self = db.instance]
    /\ UNCHANGED <<repository, rt, gw, cc>>

\* if self.initialized: return
DbInitTest(t) ==
    /\ db.th[t].pc = "init"
    /\ LET o == db.objs[db.th[t].self]
       IN  db' = IF o.initialized = <<>> THEN Finish(t, "AttributeError")
                 ELSE IF o.initialized = <<TRUE>> THEN Finish(t, "instance")
                 ELSE Goto(t, "init_config")
    /\ UNCHANGED <<repository, rt, gw, cc>>

\* if config is None: raise ValueError(...)
DbInitConfig(t) ==
    /\ db.th[t].pc = "init_config"
    /\ db' = IF db.th[t].config = <<>> THEN Finish(t, "ValueError")
             ELSE Goto(t, "init_assign")
    /\ UNCHANGED <<repository, rt, gw, cc>>

\* self.config = config; self.metadata = MetaData(schema=config.schema)
DbInitAssign(t) ==
    /\ db.th[t].pc = "init_assign"
    /\ db' = [Goto(t, "init_engine") EXCEPT
                 !.objs[db.th[t].self].config = db.th[t].config]
    /\ UNCHANGED <<repository, rt, gw, cc>>

\* self.engine = create_engine(...)
DbCreateEngine(t) ==
    /\ db.th[t].pc = "init_engine"
    /\ db' = [Goto(t, "init_finish") EXCEPT
                 !.objs[db.th[t].self].engines = Append(@, db.th[t].config[1])]
    /\ UNCHANGED <<repository, rt, gw, cc>>

\* create_engine raises (no driver, a malformed connection string).
DbCreateEngineRaises(t) ==
    /\ db.th[t].pc = "init_engine"
    /\ db' = Finish(t, "ArgumentError")
    /\ UNCHANGED <<repository, rt, gw, cc>>

\* self.session_factory, self.Session, self.Base; self.initialized = True
DbInitFinish(t) ==
    /\ db.th[t].pc = "init_finish"
    /\ db' = [Finish(t, "instance") EXCEPT
                 !.objs[db.th[t].self].initialized = <<TRUE>>,
                 !.first = IF @ = <<>> THEN db.th[t].config ELSE @]
    /\ UNCHANGED <<repository, rt, gw, cc>>

\* The caller has the instance or the exception.
DbReturn(t) ==
    /\ db.th[t].pc = "done"
    /\ db' = [db EXCEPT
                 !.th[t] = NoConstruction,
                 !.log = Append(@, [config |-> db.th[t].config,
                                    result |-> db.th[t].result,
                                    self |-> db.th[t].self])]
    /\ UNCHANGED <<repository, rt, gw, cc>>

DatabaseNext ==
    \E t \in Threads :
        \/ DbCall(t)
        \/ DbNewTest(t)
        \/ DbNewCreate(t)
        \/ DbNewInit(t)
        \/ DbNewReturn(t)
        \/ DbInitTest(t)
        \/ DbInitConfig(t)
        \/ DbInitAssign(t)
        \/ DbCreateEngine(t)
        \/ DbCreateEngineRaises(t)
        \/ DbInitFinish(t)
        \/ DbReturn(t)

-----------------------------------------------------------------------------
(* Two sessions over one store *)

Sessions == {1, 2}

\* No concurrent run is set up.
NoConcurrent == [pc |-> "idle"]

\* A session that has not looked up yet.
NewSession(data) ==
    [pc |-> "lookup", data |-> data, found |-> <<>>, written |-> <<>>,
     replaced |-> <<>>, created |-> FALSE, err |-> "none"]

\* The store before the two calls: empty or one committed entity.
StoredBefore ==
    {{}} \cup {{NewRow(d, 1, 0)} : d \in {x \in DataDicts : NotNullOK(x)}}

\* unique_fields and the data of the two calls: the same values on the
\* unique fields, which data carries.
ConcurrentInputs ==
    {[unique_fields |-> uf, data |-> <<d1, d2>>] :
        uf \in {<<"username">>, <<"role">>},
        d1 \in {x \in DataDicts : NotNullOK(x)},
        d2 \in {x \in DataDicts : NotNullOK(x)}}

SameKeyValues(in) ==
    /\ KeyFilter(in.unique_fields, in.data[1]) = KeyFilter(in.unique_fields, in.data[2])
    /\ DOMAIN KeyFilter(in.unique_fields, in.data[1]) /= {}

Other(i) == CHOOSE j \in Sessions : j /= i

\* Rows of the other transaction that are written and not committed, with
\* the committed rows it replaces.
Pending(i) ==
    IF cc.s[Other(i)].pc = "commit"
    THEN {cc.s[Other(i)].written[k] : k \in DOMAIN cc.s[Other(i)].written}
         \cup {cc.s[Other(i)].replaced[k] : k \in DOMAIN cc.s[Other(i)].replaced}
    ELSE {}

\* The write of row waits for the other transaction: it holds a row with
\* the same id or the same unique value.
Waits(i, row) ==
    \E q \in Pending(i) : q.id = row.id \/ q.username = row.username

\* The committed rows with the statement's own row in place of `old`.
Visible(old, row) == (cc.committed \ old) \cup {row}

\* Two callers, each with a repository on a session of its own, are about
\* to call upsert with the same unique-key values.
CcStart ==
    /\ cc.pc = "idle"
    /\ \E st \in StoredBefore, in \in ConcurrentInputs :
        /\ SameKeyValues(in)
        /\ cc' = [pc |-> "run", committed |-> st, nextId |-> Cardinality(st) + 1,
                  unique_fields |-> in.unique_fields, before |-> st,
                  s |-> [i \in Sessions |-> NewSession(in.data[i])]]
    /\ UNCHANGED <<repository, rt, gw, db>>

\* existing = self.get_by_filters(filters), on the rows committed now.
CcLookup(i) ==
    /\ cc.pc = "run"
    /\ cc.s[i].pc = "lookup"
    /\ \E o \in get_by_filters(Session(cc.committed, cc.committed, cc.nextId),
                               KeyFilter(cc.unique_fields, cc.s[i].data),
                               <<>>, <<>>, <<>>, FALSE, "none") :
        cc' = [cc EXCEPT
                  !.s[i].found = IF o.ret /= <<>> THEN <<o.ret[1]>> ELSE <<>>,
                  !.s[i].pc = IF o.ret /= <<>> THEN "update" ELSE "create"]
    /\ UNCHANGED <<repository, rt, gw, db>>

\* entity = self.create(data): the INSERT of the flush; a duplicate of a
\* committed unique value raises, and the handlers roll back.
CcCreate(i) ==
    /\ cc.pc = "run"
    /\ cc.s[i].pc = "create"
    /\ LET row == NewRow(model_class(cc.s[i].data), cc.nextId, now)
       IN  /\ ~Waits(i, row)
           /\ cc' = IF ConstraintsOK(Visible({}, row))
                    THEN [cc EXCEPT !.s[i].written = <<row>>,
                                    !.s[i].created = TRUE,
                                    !.s[i].pc = "commit",
                                    !.nextId = @ + 1]
                    ELSE [cc EXCEPT !.s[i].err = "DatabaseError",
                                    !.s[i].pc = "done",
                                    !.nextId = @ + 1]
    /\ UNCHANGED <<repository, rt, gw, db>>

\* setattr for the keys of data and flush: the UPDATE of the entity the
\* lookup returned, applied to its committed version.
CcUpdate(i) ==
    /\ cc.pc = "run"
    /\ cc.s[i].pc = "update"
    /\ LET latest == CHOOSE r \in cc.committed : r.id = cc.s[i].found[1].id
           row == [ApplyData(latest, cc.s[i].data) EXCEPT !.updated_at = now]
       IN  /\ ~Waits(i, row)
           /\ cc' = IF ConstraintsOK(Visible({latest}, row))
                    THEN [cc EXCEPT !.s[i].written = <<row>>,
                                    !.s[i].replaced = <<latest>>,
                                    !.s[i].pc = "commit"]
                    ELSE [cc EXCEPT !.s[i].err = "DatabaseError",
                                    !.s[i].pc = "done"]
    /\ UNCHANGED <<repository, rt, gw, db>>

\* The caller commits: repository.commit().
CcCommit(i) ==
    /\ cc.pc = "run"
    /\ cc.s[i].pc = "commit"
    /\ cc' = [cc EXCEPT
                 !.committed = (@ \ {cc.s[i].replaced[k] : k \in DOMAIN cc.s[i].replaced})
                               \cup {cc.s[i].written[k] : k \in DOMAIN cc.s[i].written},
                 !.s[i].pc = "done"]
    /\ UNCHANGED <<repository, rt, gw, db>>

\* Both callers have finished.
CcEnd ==
    /\ cc.pc = "run"
    /\ \A i \in Sessions : cc.s[i].pc = "done"
    /\ cc' = NoConcurrent
    /\ UNCHANGED <<repository, rt, gw, db>>

ConcurrentNext ==
    \/ CcStart
    \/ \E i \in Sessions :
        \/ CcLookup(i)
        \/ CcCreate(i)
        \/ CcUpdate(i)
        \/ CcCommit(i)
    \/ CcEnd

-----------------------------------------------------------------------------
(* Inputs *)

Ids == 1..MaxId

\* Lists a caller passes for one filter key; "operator" is a role no row has.
FilterLists(f) ==
    IF f = "username" THEN {{"ana", "bob"}} ELSE {{"admin", "operator"}}

\* Values a caller passes for one filter key: a scalar or a list.
FilterValues(f) ==
    {Scalar(v) : v \in FieldValues(f)} \cup {ListOf(vs) : vs \in FilterLists(f)}

FilterSets ==
    {fs \in UNION {[D -> UNION {FilterValues(f) : f \in Fields}] : D \in SUBSET Fields} :
        \A f \in DOMAIN fs : fs[f] \in FilterValues(f)}

\* A key that is no attribute of the entity type.
UnknownField == "apelido"

\* Change sets a caller passes to update: field mappings, some with a key
\* the entity does not have.
UpdateDicts ==
    DataDicts \cup
    {[k \in DOMAIN d \cup {UnknownField} |->
         IF k = UnknownField THEN "ana" ELSE d[k]] : d \in DataDicts}

\* Filter sets with a key the entity type does not have.
UnknownFilterSets ==
    {[k \in {UnknownField} |-> Scalar("ana")],
     [k \in {"username", UnknownField} |-> Scalar("ana")]}

CallerFilterSets == FilterSets \cup UnknownFilterSets

UniqueFieldLists == {<<"username">>, <<"role">>, <<"username", "role">>}

\* Items of a bulk call: mappings that name the user and leave the role to
\* its default or make it "admin".
BatchItems ==
    {d \in DataDicts :
        "username" \in DOMAIN d /\ ("role" \in DOMAIN d => d["role"] = "admin")}

Batches == UNION {[1..n -> BatchItems] : n \in 0..MaxBatch}

OptionalInts == {<<>>, <<0>>, <<1>>}

OptionalOffsets == {<<>>, <<0>>, <<1>>}

\* (order_by, descending) as a caller passes them.
Orderings ==
    {[order_by |-> <<>>, descending |-> FALSE]}
        \cup [order_by : {<<"username">>, <<"role">>}, descending : BOOLEAN]

\* The same, and an ordering on a name the entity type does not have.
CallerOrderings ==
    Orderings \cup {[order_by |-> <<UnknownField>>, descending |-> FALSE]}

\* The filters argument of count: None or a filter set.
OptionalFilterSets == {<<>>} \cup {<<fs>> : fs \in CallerFilterSets}

-----------------------------------------------------------------------------
(* retry_sync and retry_async *)

\* Exceptions the wrapped function raises that are in `exceptions`, and one
\* that is not.
ListedExceptions == {"ConnectionError", "TimeoutError"}

UnlistedExceptions == {"KeyError"}

\* max_retries, delay and backoff_factor as a caller passes them.
RetryCounts == -1..MaxRetries

Delays == {1, 2}

BackoffFactors == {1, 2}

\* No call of a retry helper is running.
NoRetry == [pc |-> "idle"]

\* The locals after retry_count = 0, current_delay = delay,
\* last_exception = None; attempts and slept record what the call did.
RetryLocals(kind, max_retries, delay, backoff_factor) ==
    [pc |-> "while", kind |-> kind, max_retries |-> max_retries,
     delay |-> delay, backoff_factor |-> backoff_factor, retry_count |-> 0,
     current_delay |-> delay, last_exception |-> <<>>,
     attempts |-> <<>>, slept |-> <<>>, result |-> <<>>, raised |-> <<>>]

\* last_exception is set only by the first failure.
Remember_first(last_exception, e) ==
    IF last_exception = <<>> THEN <<e>> ELSE last_exception

\* last_exception = e
Remember(last_exception, e) == <<e>>

\* retry_sync(func, ...) or retry_async(coroutine_func, ...) is called.
RetryCall ==
    /\ rt.pc = "idle"
    /\ \E kind \in {"sync", "async"}, max_retries \in RetryCounts,
          delay \in Delays, backoff_factor \in BackoffFactors :
        rt' = RetryLocals(kind, max_retries, delay, backoff_factor)
    /\ UNCHANGED <<repository, gw, db, cc>>

\* while retry_count <= max_retries:
RetryWhile ==
    /\ rt.pc = "while"
    /\ rt' = [rt EXCEPT !.pc = IF rt.retry_count <= rt.max_retries
                               THEN "try" ELSE "after"]
    /\ UNCHANGED <<repository, gw, db, cc>>

\* return func(*args, **kwargs): the attempt succeeds.
RetryAttemptReturns ==
    /\ rt.pc = "try"
    /\ LET n == Len(rt.attempts) + 1
       IN  rt' = [rt EXCEPT !.pc = "done",
                            !.attempts = Append(@, "ok"),
                            !.result = <<[value |-> "result", attempt |-> n]>>]
    /\ UNCHANGED <<repository, gw, db, cc>>

\* except exceptions as e: the attempt raises a listed exception.
RetryAttemptRaises ==
    /\ rt.pc = "try"
    /\ \E name \in ListedExceptions :
        LET n == Len(rt.attempts) + 1
            e == [name |-> name, attempt |-> n]
        IN  rt' = [rt EXCEPT
                      !.attempts = Append(@, name),
                      !.last_exception = Remember(@, e),
                      !.retry_count = @ + 1,
                      !.pc = IF rt.retry_count + 1 > rt.max_retries
                             THEN "after" ELSE "sleep"]
    /\ UNCHANGED <<repository, gw, db, cc>>

\* An exception that is not in `exceptions` caught like a listed one.
RetryAttemptEscapes_retried ==
    /\ rt.pc = "try"
    /\ \E name \in UnlistedExceptions :
        LET n == Len(rt.attempts) + 1
            e == [name |-> name, attempt |-> n]
        IN  rt' = [rt EXCEPT
                      !.attempts = Append(@, name),
                      !.last_exception = Remember(@, e),
                      !.retry_count = @ + 1,
                      !.pc = IF rt.retry_count + 1 > rt.max_retries
                             THEN "after" ELSE "sleep"]
    /\ UNCHANGED <<repository, gw, db, cc>>

\* The attempt raises an exception that is not in `exceptions`: it leaves
\* the helper at once.
RetryAttemptEscapes ==
    /\ rt.pc = "try"
    /\ \E name \in UnlistedExceptions :
        LET n == Len(rt.attempts) + 1
        IN  rt' = [rt EXCEPT !.pc = "done",
                             !.attempts = Append(@, name),
                             !.raised = <<[name |-> name, attempt |-> n]>>]
    /\ UNCHANGED <<repository, gw, db, cc>>

\* The delay grown by adding the factor.
Backoff_additive(current_delay, backoff_factor) == current_delay + backoff_factor

\* current_delay *= backoff_factor
Backoff(current_delay, backoff_factor) == current_delay * backoff_factor

\* sleep(current_delay); current_delay *= backoff_factor
RetrySleep ==
    /\ rt.pc = "sleep"
    /\ rt' = [rt EXCEPT !.pc = "while",
                        !.slept = Append(@, rt.current_delay),
                        !.current_delay = Backoff(@, rt.backoff_factor)]
    /\ UNCHANGED <<repository, gw, db, cc>>

\* if last_exception: raise last_exception
\* raise ServiceUnavailableError(...)
RetryGiveUp ==
    /\ rt.pc = "after"
    /\ rt' = [rt EXCEPT
                 !.pc = "done",
                 !.raised = IF rt.last_exception /= <<>>
                            THEN rt.last_exception
                            ELSE <<[name |-> "ServiceUnavailableError", attempt |-> 0]>>]
    /\ UNCHANGED <<repository, gw, db, cc>>

\* The caller has the result or the exception.
RetryReturn ==
    /\ rt.pc = "done"
    /\ rt' = NoRetry
    /\ UNCHANGED <<repository, gw, db, cc>>

RetryNext ==
    \/ RetryCall
    \/ RetryWhile
    \/ RetryAttemptReturns
    \/ RetryAttemptRaises
    \/ RetryAttemptEscapes
    \/ RetrySleep
    \/ RetryGiveUp
    \/ RetryReturn

-----------------------------------------------------------------------------
(* gather_with_concurrency *)

\* No call of gather_with_concurrency is running.
NoGather == [pc |-> "idle"]

\* concurrency as a caller passes it; asyncio.Semaphore rejects a negative
\* value with ValueError.
Concurrencies == -1..MaxConcurrency

\* The call after semaphore = asyncio.Semaphore(concurrency) and after
\* asyncio.gather has scheduled one sem_task per task: task[i] is "new"
\* (sem_task not yet at `async with`), "waiting" (in semaphore.acquire()),
\* "running" (semaphore held, the given task executing), "done" or
\* "failed"; finished lists the tasks in the order they completed.
GatherLocals(concurrency, n) ==
    [pc |-> "gather", concurrency |-> concurrency, n |-> n,
     semaphore |-> concurrency,
     task |-> [i \in 1..n |-> "new"],
     value |-> [i \in 1..n |-> <<>>],
     finished |-> <<>>, results |-> <<>>, raised |-> <<>>]

\* The value task i returns.
TaskValue(i) == [task |-> i]

\* Results collected in the order the tasks complete.
GatherResults_completion_order(g) ==
    [k \in 1..Len(g.finished) |-> g.value[g.finished[k]][1]]

\* asyncio.gather: the result list, by position of the awaitable.
GatherResults(g) == [i \in 1..g.n |-> g.value[i][1]]

GatherCall ==
    /\ gw.pc = "idle"
    /\ \E concurrency \in Concurrencies, n \in 0..MaxTasks :
        gw' = IF concurrency < 0
              THEN [GatherLocals(concurrency, n) EXCEPT
                       !.pc = "done", !.raised = <<"ValueError">>]
              ELSE GatherLocals(concurrency, n)
    /\ UNCHANGED <<repository, rt, db, cc>>

\* async with semaphore: the semaphore is free, sem_task i takes it and
\* awaits its task.
GatherAcquire(i) ==
    /\ gw.pc \in {"gather", "done"}
    /\ gw.task[i] \in {"new", "waiting"}
    /\ gw.semaphore > 0
    /\ gw' = [gw EXCEPT !.task[i] = "running", !.semaphore = @ - 1]
    /\ UNCHANGED <<repository, rt, db, cc>>

\* async with semaphore: the semaphore is taken, sem_task i waits.
GatherWait(i) ==
    /\ gw.pc \in {"gather", "done"}
    /\ gw.task[i] = "new"
    /\ gw.semaphore = 0
    /\ gw' = [gw EXCEPT !.task[i] = "waiting"]
    /\ UNCHANGED <<repository, rt, db, cc>>

\* return await task: task i returns, the semaphore is released.
GatherTaskReturns(i) ==
    /\ gw.pc \in {"gather", "done"}
    /\ gw.task[i] = "running"
    /\ gw' = [gw EXCEPT !.task[i] = "done",
                        !.value[i] = <<TaskValue(i)>>,
                        !.semaphore = @ + 1,
                        !.finished = Append(@, i)]
    /\ UNCHANGED <<repository, rt, db, cc>>

\* await task raises: the semaphore is released and asyncio.gather passes
\* the first exception on to the caller while the other tasks go on.
GatherTaskRaises(i) ==
    /\ gw.pc \in {"gather", "done"}
    /\ gw.task[i] = "running"
    /\ gw' = [gw EXCEPT !.task[i] = "failed",
                        !.semaphore = @ + 1,
                        !.finished = Append(@, i),
                        !.pc = "done",
                        !.raised = IF gw.raised = <<>> THEN <<TaskValue(i)>> ELSE @]
    /\ UNCHANGED <<repository, rt, db, cc>>

\* Every sem_task returned: asyncio.gather returns the list of results.
GatherReturns ==
    /\ gw.pc = "gather"
    /\ \A i \in 1..gw.n : gw.task[i] = "done"
    /\ gw' = [gw EXCEPT !.pc = "done", !.results = <<GatherResults(gw)>>]
    /\ UNCHANGED <<repository, rt, db, cc>>

\* The caller has the results or the exception and every sem_task has
\* ended.
GatherEnd ==
    /\ gw.pc = "done"
    /\ \A i \in 1..gw.n : gw.task[i] \in {"done", "failed"}
    /\ gw' = NoGather
    /\ UNCHANGED <<repository, rt, db, cc>>

GatherNext ==
    \/ GatherCall
    \/ \E i \in 1..MaxTasks :
        /\ gw.pc /= "idle"
        /\ i <= gw.n
        /\ \/ GatherAcquire(i)
           \/ GatherWait(i)
           \/ GatherTaskReturns(i)
           \/ GatherTaskRaises(i)
    \/ GatherReturns
    \/ GatherEnd

-----------------------------------------------------------------------------
(* Actions: one per repository method *)

Init ==
    /\ store = {}
    /\ committed = {}
    /\ nextId = 1
    /\ now = 0
    /\ op = "idle"
    /\ args = <<>>
    /\ ret = NoReturn
    /\ err = "none"
    /\ rb = 0
    /\ hit = FALSE
    /\ pre = {}
    /\ calls = <<>>
    /\ first = NoCall
    /\ rt = NoRetry
    /\ gw = NoGather
    /\ db = NoDatabase
    /\ cc = NoConcurrent

Current == Session(store, committed, nextId)

\* The record of the call that has just returned.
LastCall == [op |-> op, args |-> args, ret |-> ret, err |-> err, pre |-> pre]

\* The call `name` with arguments a has one of the outcomes outs.
Call(name, a, outs) ==
    \E o \in outs :
        /\ o.nextId <= MaxId + 1
        /\ first' = IF op = "idle" THEN NoCall ELSE LastCall
        /\ rt' = rt
        /\ gw' = gw
        /\ db' = db
        /\ cc' = cc
        /\ store' = o.store
        /\ committed' = o.committed
        /\ nextId' = o.nextId
        /\ now' = now
        /\ op' = name
        /\ args' = a
        /\ ret' = o.ret
        /\ err' = o.err
        /\ rb' = o.rb
        /\ hit' = o.hit
        /\ calls' = o.calls
        /\ pre' = store

GetById ==
    /\ op = "idle"
    /\ \E id \in Ids, fault \in {"none", "query"} :
        Call("get_by_id", [entity_id |-> id, fault |-> fault],
             get_by_id(Current, id, fault))

GetByFilters ==
    /\ op = "idle"
    /\ \E fs \in CallerFilterSets, o \in CallerOrderings, lim \in OptionalInts,
       off \in OptionalOffsets, fault \in {"none", "query"} :
        Call("get_by_filters",
             [filters |-> fs, order_by |-> o.order_by, limit |-> lim, offset |-> off,
              descending |-> o.descending, fault |-> fault],
             get_by_filters(Current, fs, o.order_by, lim, off, o.descending, fault))

GetAll ==
    /\ op = "idle"
    /\ \E fault \in {"none", "query"} :
        Call("get_all", [fault |-> fault], get_all(Current, fault))

Count ==
    /\ op = "idle"
    /\ \E fs \in OptionalFilterSets, fault \in {"none", "query"} :
        Call("count", [filters |-> fs, fault |-> fault], count(Current, fs, fault))

Create ==
    /\ op = "idle"
    /\ \E data \in DataDicts, isDict \in BOOLEAN,
       fault \in {"none", "flush"} :
        Call("create", [data |-> data, isDict |-> isDict, fault |-> fault],
                create(Current, data, isDict, now, fault))

BulkCreate ==
    /\ op = "idle"
    /\ \E items \in Batches, fault \in {"none", "flush"} :
        Call("bulk_create", [items |-> items, fault |-> fault],
                bulk_create(Current, items, now, fault))

Update ==
    /\ op = "idle"
    /\ \E id \in Ids, data \in UpdateDicts, fault \in Faults :
        Call("update", [entity_id |-> id, data |-> data, fault |-> fault],
             update(Current, id, data, now, fault))

Delete ==
    /\ op = "idle"
    /\ \E id \in Ids, fault \in Faults :
        Call("delete", [entity_id |-> id, fault |-> fault],
             delete(Current, id, fault))

DeleteMany ==
    /\ op = "idle"
    /\ \E fs \in CallerFilterSets, fault \in Faults :
        Call("delete_many", [filter_dict |-> fs, fault |-> fault],
             delete_many(Current, fs, fault))

Upsert ==
    /\ op = "idle"
    /\ \E uf \in UniqueFieldLists, data \in DataDicts, fault \in Faults :
        Call("upsert", [unique_fields |-> uf, data |-> data, fault |-> fault],
             upsert(Current, uf, data, now, fault))

\* upsert called again, with the same unique fields, right after an upsert
\* that returned: the record of the first call is kept in `first`.
UpsertAgain ==
    /\ op = "upsert"
    /\ err = "none"
    /\ first = NoCall
    /\ \E data \in DataDicts :
        Call("upsert",
             [unique_fields |-> args.unique_fields, data |-> data, fault |-> "none"],
             upsert(Current, args.unique_fields, data, now, "none"))

BulkUpsert ==
    /\ op = "idle"
    /\ \E uf \in UniqueFieldLists, items \in Batches,
       fault \in Faults, failAt \in 1..MaxBatch :
        /\ failAt <= Len(items) \/ (failAt = 1 /\ fault = "none")
        /\ Call("bulk_upsert",
                [unique_fields |-> uf, items |-> items, fault |-> fault,
                 failAt |-> failAt],
                bulk_upsert(Current, uf, items, now, fault, failAt))

Commit ==
    /\ op = "idle"
    /\ \E fault \in {"none", "flush"} :
        Call("commit", [fault |-> fault], commit(Current, fault))

Rollback ==
    /\ op = "idle"
    /\ \E fault \in {"none", "flush"} :
        Call("rollback", [fault |-> fault], rollback(Current, fault))

BeginTransaction ==
    /\ op = "idle"
    /\ \E fault \in {"none", "flush"} :
        Call("begin_transaction", [fault |-> fault], begin_transaction(Current, fault))

Close ==
    /\ op = "idle"
    /\ \E fault \in {"none", "flush"} :
        Call("close", [fault |-> fault], close(Current, fault))

\* The caller takes the result; the repository waits for the next call.
Return ==
    /\ op /= "idle"
    /\ op' = "idle"
    /\ args' = <<>>
    /\ ret' = NoReturn
    /\ err' = "none"
    /\ rb' = 0
    /\ hit' = FALSE
    /\ pre' = {}
    /\ calls' = <<>>
    /\ first' = NoCall
    /\ UNCHANGED <<store, committed, nextId, now, rt, gw, db, cc>>

\* Time passes between two calls.
Tick ==
    /\ op = "idle"
    /\ now < MaxClock
    /\ now' = now + 1
    /\ UNCHANGED <<store, committed, nextId, op, args, ret, err, rb, hit, pre, calls, first, rt, gw, db, cc>>

Next ==
    \/ Return
    \/ Tick
    \/ GetById
    \/ GetByFilters
    \/ GetAll
    \/ Count
    \/ Create
    \/ BulkCreate
    \/ Update
    \/ Delete
    \/ DeleteMany
    \/ Upsert
    \/ UpsertAgain
    \/ BulkUpsert
    \/ Commit
    \/ Rollback
    \/ BeginTransaction
    \/ Close

Spec == Init /\ [][Next]_vars

\* One caller of the retry helpers.
RetrySpec == Init /\ [][RetryNext]_vars

\* One caller of gather_with_concurrency and the tasks it passed.
GatherSpec == Init /\ [][GatherNext]_vars

\* Threads constructing Database.
DatabaseSpec == Init /\ [][DatabaseNext]_vars

\* Two callers of upsert on separate sessions.
ConcurrentSpec == Init /\ [][ConcurrentNext]_vars

-----------------------------------------------------------------------------
(* Vocabulary of the properties *)

\* The call on record returned normally.
Returned(name) == op = name /\ err = "none"

\* An entity with identifier id existed when the call was made.
Existed(id) == \E r \in pre : r.id = id

\* The row of identifier id in a set of rows.
RowOf(rows, id) == CHOOSE r \in rows : r.id = id

\* row satisfies every condition of the filter set fs: equality for a
\* scalar, membership for a list.
SatisfiesAll(row, fs) ==
    \A k \in DOMAIN fs :
        IF fs[k].isList THEN row[k] \in fs[k].vals ELSE fs[k].vals = {row[k]}

Range(s) == {s[i] : i \in DOMAIN s}

MutatingOps ==
    {"create", "bulk_create", "update", "delete", "delete_many", "upsert",
     "bulk_upsert"}

-----------------------------------------------------------------------------
(* C1 *)

\* C1: after create(data) returned an entity, get_by_id with the returned
\* identifier finds an entity that equals data in every supplied field and
\* has id, created_at and updated_at populated; data may be a field mapping
\* or a constructed entity.
C1_CreateThenGetById ==
    Returned("create") =>
        \A o \in get_by_id(Current, ret.id, "none") :
            /\ o.err = "none"
            /\ o.ret /= <<>>
            /\ \A f \in DOMAIN args.data : o.ret[1][f] = args.data[f]
            /\ {"id", "created_at", "updated_at"} \subseteq DOMAIN o.ret[1]
            /\ o.ret[1].id = ret.id
            /\ o.ret[1].id \in Ids
            /\ o.ret[1].created_at \in 0..now
            /\ o.ret[1].updated_at \in 0..now

\* A constructed entity with both fields supplied was created.
C1_Witness ==
    /\ Returned("create")
    /\ ~args.isDict
    /\ DOMAIN args.data = Fields
    /\ args.data["role"] = "admin"

-----------------------------------------------------------------------------
(* C2 *)

\* The call on record is an upsert that returned, made right after an upsert
\* that returned, with the same unique fields and the same unique-key values.
SecondUpsertSameKey ==
    /\ Returned("upsert")
    /\ first.op = "upsert"
    /\ first.err = "none"
    /\ args.unique_fields = first.args.unique_fields
    /\ \A f \in Range(args.unique_fields) :
           /\ f \in DOMAIN args.data <=> f \in DOMAIN first.args.data
           /\ f \in DOMAIN args.data => args.data[f] = first.args.data[f]

\* No entity had the unique-key values of the first call before it.
FirstHadNoMatch ==
    ~\E r \in first.pre :
        \A f \in Range(first.args.unique_fields) \cap DOMAIN first.args.data :
            r[f] = first.args.data[f]

\* C2: when upsert is called twice with the same unique-key values and no
\* entity matched before the first call, the first call reports created = TRUE,
\* the second reports created = FALSE, and after the second call the
\* persisted entity holds the values of the second call's data.
C2_UpsertTwice ==
    (SecondUpsertSameKey /\ FirstHadNoMatch) =>
        /\ first.ret.created
        /\ ~ret.created
        /\ ret.entity \in store
        /\ \A f \in DOMAIN args.data : ret.entity[f] = args.data[f]
        /\ \A r \in store :
               r.id = ret.entity.id => \A f \in DOMAIN args.data : r[f] = args.data[f]

\* The second call changed a field that is not part of the key.
C2_Witness ==
    /\ SecondUpsertSameKey
    /\ FirstHadNoMatch
    /\ args.unique_fields = <<"username">>
    /\ "role" \in DOMAIN args.data
    /\ first.ret.entity.role /= args.data["role"]
    /\ first.pre /= {}

-----------------------------------------------------------------------------
(* C3 *)

\* Items of the bulk_upsert on record whose unique-key values match an entity
\* of rows.
ItemMatches(rows, i) ==
    \E r \in rows :
        \A f \in Range(args.unique_fields) \cap DOMAIN args.items[i] :
            r[f] = args.items[i][f]

\* K of the claim: items with a match in the store before the call.
PreExisting == {i \in DOMAIN args.items : ItemMatches(pre, i)}

\* Items with a match in the store before the call or among the entities
\* returned for earlier items of the batch.
MatchedWhenProcessed ==
    {i \in DOMAIN args.items :
        ItemMatches(pre \cup {ret.entities[j] : j \in 1..(i - 1)}, i)}

\* C3 as stated: for a bulk_upsert over N items of which K have a
\* pre-existing match, updated = K and created = N - K.
C3_CountsFromPreExisting ==
    Returned("bulk_upsert") =>
        /\ ret.updated = Cardinality(PreExisting)
        /\ ret.created = Len(args.items) - Cardinality(PreExisting)
        /\ ret.created + ret.updated = Len(args.items)

\* C3 amended: K counts the items that have a match in the store before the
\* call or among the entities returned for earlier items of the same batch;
\* updated = K, created = N - K, created + updated = N, and one entity is
\* returned per item.
C3_CountsWhenProcessed ==
    Returned("bulk_upsert") =>
        /\ ret.updated = Cardinality(MatchedWhenProcessed)
        /\ ret.created = Len(args.items) - Cardinality(MatchedWhenProcessed)
        /\ ret.created + ret.updated = Len(args.items)
        /\ Len(ret.entities) = Len(args.items)
        /\ PreExisting \subseteq MatchedWhenProcessed

\* Two items, one with a pre-existing match and one without.
C3_Witness ==
    /\ Returned("bulk_upsert")
    /\ Len(args.items) = 2
    /\ Cardinality(PreExisting) = 1
    /\ ret.created = 1
    /\ ret.updated = 1

-----------------------------------------------------------------------------
(* C4 *)

\* C4: when bulk_create fails on an item of the batch it raises DatabaseError,
\* the session has been rolled back, and no entity of the batch is visible:
\* the store holds no row with an identifier the batch drew, and no row the
\* durable content does not hold.
C4_BulkCreateAtomic ==
    (op = "bulk_create" /\ hit) =>
        /\ err = "DatabaseError"
        /\ rb >= 1
        /\ store = committed
        /\ \A r \in store : r.id < nextId

\* The second item of a batch repeats the unique username of the first, which
\* the store accepted.
C4_Witness ==
    /\ op = "bulk_create"
    /\ hit
    /\ args.fault = "none"
    /\ Len(args.items) = 2
    /\ args.items[1]["username"] = args.items[2]["username"]
    /\ \A r \in pre : r.username /= args.items[1]["username"]
    /\ pre /= {}

-----------------------------------------------------------------------------
(* C5 *)

\* C5: delete_many(filters) removes exactly the entities that satisfy every
\* condition of the filter set, leaves every other entity untouched, and
\* returns the number of entities removed.
C5_DeleteManyExact ==
    Returned("delete_many") =>
        /\ store = {r \in pre : ~SatisfiesAll(r, args.filter_dict)}
        /\ ret = Cardinality({r \in pre : SatisfiesAll(r, args.filter_dict)})
        /\ ret = Cardinality(pre) - Cardinality(store)

\* A two-condition filter removed one entity and kept another that satisfies
\* only one of the conditions.
C5_Witness ==
    /\ Returned("delete_many")
    /\ DOMAIN args.filter_dict = Fields
    /\ ret = 1
    /\ \E r \in store :
           \E k \in Fields :
               SatisfiesAll(r, [f \in {k} |-> args.filter_dict[f]])

-----------------------------------------------------------------------------
(* C6 *)

\* s is sorted by key, ascending or descending.
SortedBy(s, key, descending) ==
    \A i \in 1..(Len(s) - 1) :
        IF descending
        THEN Rank(s[i][key]) >= Rank(s[i + 1][key])
        ELSE Rank(s[i][key]) <= Rank(s[i + 1][key])

\* The call on record passed no limit and no offset that cut the result.
Unpaged == args.limit \in {<<>>, <<0>>} /\ args.offset \in {<<>>, <<0>>}

\* C6: get_by_filters returns exactly the entities that satisfy all filter
\* conditions (equality for a scalar, membership for a list), each once, and
\* with order_by the result is sorted by that field, ascending by default
\* and descending when requested.
C6_FiltersExactAndSorted ==
    Returned("get_by_filters") =>
        /\ Range(ret) \subseteq {r \in store : SatisfiesAll(r, args.filters)}
        /\ Cardinality(Range(ret)) = Len(ret)
        /\ Unpaged => Range(ret) = {r \in store : SatisfiesAll(r, args.filters)}
        /\ args.order_by /= <<>> => SortedBy(ret, args.order_by[1], args.descending)
        /\ store = pre

\* A membership filter on role kept one of two entities; and a descending
\* order put the larger username first.
C6_Witness ==
    /\ Returned("get_by_filters")
    /\ Unpaged
    /\ args.order_by = <<"username">>
    /\ args.descending
    /\ Len(ret) = 2
    /\ Rank(ret[1].username) > Rank(ret[2].username)
    /\ "role" \in DOMAIN args.filters
    /\ args.filters["role"].isList

-----------------------------------------------------------------------------
(* C7 *)

\* The call on record is update(id, {}) on an entity that existed.
EmptyUpdateOfExisting ==
    /\ Returned("update")
    /\ DOMAIN args.data = {}
    /\ Existed(args.entity_id)

\* C7: update(id, {}) on an existing entity sets updated_at to the current
\* time and leaves every other field of the entity, and every other entity,
\* as it was.
C7_EmptyUpdateRefreshesTimestamp ==
    EmptyUpdateOfExisting =>
        LET old == RowOf(pre, args.entity_id)
        IN  /\ ret /= <<>>
            /\ ret[1].updated_at = now
            /\ \A k \in DOMAIN old \ {"updated_at"} : ret[1][k] = old[k]
            /\ store = (pre \ {old}) \cup {ret[1]}

\* The timestamp moved forward.
C7_Witness ==
    /\ EmptyUpdateOfExisting
    /\ ret[1].updated_at > RowOf(pre, args.entity_id).updated_at
    /\ Cardinality(store) = 2

-----------------------------------------------------------------------------
(* C8 *)

\* C8: delete(id) returns TRUE exactly when an entity with that identifier
\* existed; afterwards get_by_id(id) on the same session returns nothing,
\* and every other entity is unchanged.
C8_DeleteThenGetById ==
    Returned("delete") =>
        /\ ret <=> Existed(args.entity_id)
        /\ \A o \in get_by_id(Current, args.entity_id, "none") :
               o.err = "none" /\ o.ret = <<>>
        /\ {r \in store : r.id /= args.entity_id}
               = {r \in pre : r.id /= args.entity_id}

\* An entity was deleted and another one stayed.
C8_Witness ==
    /\ Returned("delete")
    /\ ret
    /\ store /= {}

-----------------------------------------------------------------------------
(* C9 *)

\* The fault injected into the call on record was met: the store call it
\* names was made.
FaultMet ==
    CASE op \in {"create", "bulk_create", "delete_many", "upsert", "bulk_upsert"}
            -> args.fault /= "none"
      [] op \in {"update", "delete"}
            -> args.fault = "query"
               \/ (args.fault = "flush" /\ Existed(args.entity_id))
      [] OTHER -> FALSE

-----------------------------------------------------------------------------
(* C10 *)

\* The call on record looked up an identifier no entity had, and the lookup
\* itself did not fail.
AbsentIdCall ==
    /\ op \in {"get_by_id", "update", "delete"}
    /\ ~Existed(args.entity_id)
    /\ args.fault /= "query"

\* C10: an absent identifier is no error: get_by_id returns nothing, update
\* returns nothing and delete returns FALSE, without DatabaseError, without
\* rollback, and with the store unchanged.
C10_AbsentIdIsNoError ==
    AbsentIdCall =>
        /\ err = "none"
        /\ ~hit
        /\ rb = 0
        /\ store = pre
        /\ op \in {"get_by_id", "update"} => ret = <<>>
        /\ op = "delete" => ret = FALSE

\* update of an absent identifier while the session holds uncommitted rows.
C10_Witness ==
    /\ AbsentIdCall
    /\ op = "update"
    /\ DOMAIN args.data /= {}
    /\ store /= {}
    /\ store /= committed

-----------------------------------------------------------------------------
(* C11 *)

\* The sequences the filters and the ordering of the call on record select
\* from the store: every order the store may produce them in.
FilteredOrdered ==
    {s \in Perms({r \in pre : SatisfiesAll(r, args.filters)}) :
        args.order_by /= <<>> => SortedBy(s, args.order_by[1], args.descending)}

\* The slice of s that starts at position O (counted from 0) and holds at
\* most L entities; L = <<>> when no limit was passed.
SliceOf(s, L, O) ==
    [i \in 1..(IF L = <<>> \/ Len(s) - O < L[1]
               THEN (IF Len(s) > O THEN Len(s) - O ELSE 0)
               ELSE L[1]) |-> s[O + i]]

\* C11: for every non-negative limit L and offset O passed to
\* get_by_filters, the result is the slice of the filtered and ordered
\* sequence that starts at position O and holds at most L entities; the
\* result never has more than L entities when a limit L is supplied.
C11_LimitAndOffsetSlice ==
    Returned("get_by_filters") =>
        /\ \E s \in FilteredOrdered :
               ret = SliceOf(s, args.limit,
                             IF args.offset = <<>> THEN 0 ELSE args.offset[1])
        /\ args.limit /= <<>> => Len(ret) <= args.limit[1]

\* C11 for the limits the code applies: the same statement for every
\* limit L >= 1 (and for no limit at all).
C11_PositiveLimitSlice ==
    Returned("get_by_filters") /\ args.limit /= <<0>> =>
        /\ \E s \in FilteredOrdered :
               ret = SliceOf(s, args.limit,
                             IF args.offset = <<>> THEN 0 ELSE args.offset[1])
        /\ args.limit /= <<>> => Len(ret) <= args.limit[1]

\* A limit cut the result short, after an offset.
C11_Witness ==
    /\ Returned("get_by_filters")
    /\ args.limit = <<1>>
    /\ args.offset = <<1>>
    /\ args.order_by /= <<>>
    /\ Len(ret) = 1
    /\ Cardinality(pre) = 2

-----------------------------------------------------------------------------
(* C12 *)

\* C12: update(id, data) on an existing entity sets every key of data that
\* is a field of the entity to the given value, ignores the keys that are
\* not on the entity, sets updated_at to the current time, leaves every
\* field not named in data unchanged, modifies no other entity and returns
\* the updated entity.
C12_UpdateFrame ==
    Returned("update") /\ Existed(args.entity_id) =>
        /\ ret /= <<>>
        /\ LET old == RowOf(pre, args.entity_id)
               new == ret[1]
           IN  /\ DOMAIN new = DOMAIN old
               /\ \A k \in DOMAIN args.data \cap DOMAIN old : new[k] = args.data[k]
               /\ new.updated_at = now
               /\ \A k \in DOMAIN old \ (DOMAIN args.data \cup {"updated_at"}) :
                      new[k] = old[k]
               /\ store = (pre \ {old}) \cup {new}

\* An update that changed the role, carried a key the entity does not
\* have, and left a second entity alone.
C12_Witness ==
    /\ Returned("update")
    /\ Existed(args.entity_id)
    /\ UnknownField \in DOMAIN args.data
    /\ "role" \in DOMAIN args.data
    /\ ret[1].role /= RowOf(pre, args.entity_id).role
    /\ Cardinality(store) = 2

-----------------------------------------------------------------------------
(* C13 *)

\* The entities that matched the unique-key filter of the upsert on record
\* before the call: equal to data on every unique field data carries.
MatchedBefore ==
    {r \in pre :
        \A i \in DOMAIN args.unique_fields :
            args.unique_fields[i] \in DOMAIN args.data =>
                r[args.unique_fields[i]] = args.data[args.unique_fields[i]]}

\* C13: upsert returns created = TRUE exactly when no stored entity matched
\* the unique-key filter before the call; then the number of stored
\* entities grows by one; otherwise the number of stored entities is
\* unchanged and the returned entity is one that existed before.
C13_UpsertCreatedFlag ==
    Returned("upsert") =>
        /\ ret.created <=> MatchedBefore = {}
        /\ ret.created =>
               /\ Cardinality(store) = Cardinality(pre) + 1
               /\ \A r \in pre : r.id /= ret.entity.id
        /\ ~ret.created =>
               /\ Cardinality(store) = Cardinality(pre)
               /\ \E r \in MatchedBefore : r.id = ret.entity.id
        /\ ret.entity \in store

\* An upsert that updated one of two stored entities.
C13_Witness ==
    /\ Returned("upsert")
    /\ ~ret.created
    /\ Cardinality(pre) = 2
    /\ Cardinality(MatchedBefore) = 1
    /\ ret.entity \notin pre

-----------------------------------------------------------------------------
(* C14 *)

\* The number of self.upsert calls the call on record made.
UpsertCalls == Cardinality({i \in DOMAIN calls : calls[i] = "upsert"})

\* C14: when upsert fails on item i of a bulk_upsert batch, bulk_upsert
\* raises DatabaseError, no item after i is processed (no upsert is called
\* once a rollback has happened, and none beyond the item the failure was
\* injected at), and after the rollback the effects of the items before i
\* are not visible: the store is back at the committed content.
C14_BulkUpsertStopsAndRollsBack ==
    op = "bulk_upsert" /\ (hit \/ err /= "none") =>
        /\ err = "DatabaseError"
        /\ UpsertCalls <= Len(args.items)
        /\ args.fault /= "none" => UpsertCalls <= args.failAt
        /\ \A j \in DOMAIN calls : \A k \in DOMAIN calls :
               j < k /\ calls[j] = "rollback" => calls[k] = "rollback"
        /\ calls[Len(calls)] = "rollback"
        /\ store = committed

\* The second item of a batch failed after the first one had been created.
C14_Witness ==
    /\ op = "bulk_upsert"
    /\ err = "DatabaseError"
    /\ Len(args.items) = 2
    /\ UpsertCalls = 2
    /\ ~ItemMatches(pre, 1)
    /\ pre /= committed
    /\ store = committed

-----------------------------------------------------------------------------
(* C15 *)

\* C15: count(filters) equals the number of entities get_by_filters(filters)
\* returns without limit and offset, and count() without filters equals the
\* number of entities get_all() returns.
C15_CountAgreesWithQueries ==
    Returned("count") =>
        /\ store = pre
        /\ args.filters /= <<>> =>
               \A g \in get_by_filters(Current, args.filters[1], <<>>, <<>>, <<>>,
                                       FALSE, "none") :
                   g.err = "none" /\ Len(g.ret) = ret
        /\ args.filters = <<>> =>
               \A g \in get_all(Current, "none") :
                   g.err = "none" /\ Len(g.ret) = ret

\* A count under a filter that one of two entities satisfies.
C15_Witness ==
    /\ Returned("count")
    /\ args.filters /= <<>>
    /\ ret = 1
    /\ Cardinality(store) = 2

-----------------------------------------------------------------------------
(* C16 *)

\* The call on record named a field the entity type does not have, as a
\* filter key or as order_by.
NamesUnknownField ==
    \/ /\ op = "get_by_filters"
       /\ \/ UnknownField \in DOMAIN args.filters
          \/ args.order_by = <<UnknownField>>
    \/ /\ op = "count"
       /\ args.filters /= <<>>
       /\ UnknownField \in DOMAIN args.filters[1]
    \/ /\ op = "delete_many"
       /\ UnknownField \in DOMAIN args.filter_dict

-----------------------------------------------------------------------------
(* C17 *)

\* The session method each transaction-control method passes through to.
SessionCall ==
    [commit |-> "commit", rollback |-> "rollback",
     begin_transaction |-> "begin_nested", close |-> "close"]

\* C17: commit(), rollback(), begin_transaction() and close() each make one
\* call of the matching session method and raise DatabaseError exactly when
\* that call fails; a failing commit() additionally calls
\* session.rollback() before raising, and no other method does.
C17_TransactionPassThrough ==
    op \in DOMAIN SessionCall =>
        /\ args.fault /= "none" <=> err = "DatabaseError"
        /\ args.fault = "none" <=> err = "none"
        /\ calls = IF op = "commit" /\ err /= "none"
                   THEN <<"commit", "rollback">>
                   ELSE <<SessionCall[op]>>
        /\ op = "commit" /\ err /= "none" => store = committed
        /\ op = "commit" /\ err = "none" => committed = pre /\ store = pre
        /\ op = "rollback" /\ err = "none" => store = committed
        /\ op = "begin_transaction" => store = pre

\* A commit that failed and threw away the uncommitted rows.
C17_Witness ==
    /\ op = "commit"
    /\ err = "DatabaseError"
    /\ pre /= committed
    /\ store = committed

-----------------------------------------------------------------------------
(* C18 *)

\* The wrapped function has been invoked n times by the running call.
Invocations == IF rt.pc = "idle" THEN 0 ELSE Len(rt.attempts)

\* C18: retry_sync and retry_async invoke the wrapped function at most
\* max_retries times in total, for every max_retries >= 1 and every pattern
\* of failures.
C18_AtMostMaxRetriesAttempts ==
    rt.pc /= "idle" /\ rt.max_retries >= 1 => Invocations <= rt.max_retries

\* What the loop does bound: one first attempt and max_retries retries.
C18_AtMostOneMoreAttempt ==
    rt.pc /= "idle" /\ rt.max_retries >= 1 => Invocations <= rt.max_retries + 1

\* Every attempt failed and the helper gave up after max_retries + 1
\* invocations.
C18_Witness ==
    /\ rt.pc = "done"
    /\ rt.max_retries = 1
    /\ Invocations = 2
    /\ rt.raised /= <<>>

-----------------------------------------------------------------------------
(* C19 *)

\* Every attempt of the call raised an exception listed in `exceptions`.
AllAttemptsRaisedListed ==
    /\ Len(rt.attempts) >= 1
    /\ \A i \in DOMAIN rt.attempts : rt.attempts[i] \in ListedExceptions

\* C19: retry_sync and retry_async return the result of the first attempt
\* that succeeds and make no further attempt after it; when every attempt
\* raises a listed exception they raise the exception of the last attempt,
\* not an earlier one and not ServiceUnavailableError.
C19_FirstSuccessOrLastException ==
    rt.pc /= "idle" =>
        /\ \A i \in DOMAIN rt.attempts :
               rt.attempts[i] = "ok" =>
                   /\ i = Len(rt.attempts)
                   /\ rt.pc = "done"
                   /\ rt.result = <<[value |-> "result", attempt |-> i]>>
                   /\ rt.raised = <<>>
        /\ rt.pc = "done" /\ AllAttemptsRaisedListed =>
               /\ rt.result = <<>>
               /\ rt.raised = <<[name |-> rt.attempts[Len(rt.attempts)],
                                 attempt |-> Len(rt.attempts)]>>

\* Three attempts failed, the first and the last with different exceptions.
C19_Witness ==
    /\ rt.pc = "done"
    /\ AllAttemptsRaisedListed
    /\ Len(rt.attempts) = 3
    /\ rt.attempts[1] /= rt.attempts[3]
    /\ rt.raised /= <<>>

\* A success on the second attempt.
C19_WitnessSuccess ==
    /\ rt.pc = "done"
    /\ Len(rt.attempts) = 2
    /\ rt.result /= <<>>

-----------------------------------------------------------------------------
(* C20 *)

\* The given tasks that are executing.
Executing == {i \in 1..gw.n : gw.task[i] = "running"}

C20_WitnessFull ==
    /\ gw.pc = "gather"
    /\ gw.concurrency = 2
    /\ Cardinality(Executing) = 2
    /\ \E i \in 1..gw.n : gw.task[i] = "waiting"

-----------------------------------------------------------------------------
(* C21 *)

\* What a caller gets who calls upsert(unique_fields, item) for each item in
\* list order on session S and stops at the first call that raises: the
\* session left behind, the entities and the created flags, per item.
RECURSIVE SequentialUpserts(_, _, _, _)
SequentialUpserts(S, unique_fields, items, t) ==
    IF items = <<>>
    THEN {[sess |-> S, entities |-> <<>>, flags |-> <<>>, ok |-> TRUE]}
    ELSE UNION {
        IF o.err /= "none"
        THEN {[sess |-> Sess(o), entities |-> <<>>, flags |-> <<>>, ok |-> FALSE]}
        ELSE {[r EXCEPT !.entities = <<o.ret.entity>> \o @,
                        !.flags = <<o.ret.created>> \o @]
              : r \in SequentialUpserts(Sess(o), unique_fields, Tail(items), t)}
        : o \in upsert(S, unique_fields, Head(items), t, "none")}

\* The session the bulk_upsert on record started from, when it returned.
SessionBefore == Session(pre, committed, nextId - ret.created)

\* How many flags are TRUE.
CountTrue(flags) == Cardinality({i \in DOMAIN flags : flags[i]})

\* Items i < j of the batch carry every unique field, with equal values.
SameKey(i, j) ==
    \A f \in Range(args.unique_fields) :
        /\ f \in DOMAIN args.items[i] \cap DOMAIN args.items[j]
        /\ args.items[i][f] = args.items[j][f]

\* C21: bulk_upsert(unique_fields, items) is equivalent to calling
\* upsert(unique_fields, item) for each item in list order on the same
\* session: the same final stores, entities (one per item, in item order)
\* and created flags are possible, and an item whose unique-key values
\* equal those of an earlier item of the batch is updated, not created.
C21_BulkUpsertIsSequentialUpsert ==
    Returned("bulk_upsert") =>
        LET runs == SequentialUpserts(SessionBefore, args.unique_fields,
                                      args.items, now)
            bulk == bulk_upsert(SessionBefore, args.unique_fields, args.items,
                                now, "none", 1)
        IN  /\ Len(ret.entities) = Len(args.items)
            /\ \E r \in runs :
                   /\ r.ok
                   /\ r.sess.store = store
                   /\ r.entities = ret.entities
                   /\ CountTrue(r.flags) = ret.created
                   /\ Len(r.flags) - CountTrue(r.flags) = ret.updated
            /\ {<<o.store, o.ret.entities, o.ret.created, o.ret.updated>> :
                    o \in {b \in bulk : b.err = "none"}}
               = {<<r.sess.store, r.entities, CountTrue(r.flags),
                    Len(r.flags) - CountTrue(r.flags)>> :
                    r \in {q \in runs : q.ok}}
            /\ (\E b \in bulk : b.err /= "none") <=> (\E r \in runs : ~r.ok)
            /\ \A r \in runs : \A j \in DOMAIN r.flags :
                   r.ok /\ (\E i \in 1..(j - 1) : SameKey(i, j)) => ~r.flags[j]

\* Two different items with the same username: the first is created, the
\* second updates it.
C21_Witness ==
    /\ Returned("bulk_upsert")
    /\ Len(args.items) = 2
    /\ args.unique_fields = <<"username">>
    /\ SameKey(1, 2)
    /\ args.items[1] /= args.items[2]
    /\ ret.created = 1
    /\ ret.updated = 1
    /\ pre /= {}

-----------------------------------------------------------------------------
(* C22 *)

\* C22: when several stored entities match the unique-key filter of an
\* upsert, exactly one of them is overwritten with data and returned with
\* created = FALSE; every other matching entity is left unchanged and no
\* entity is created.
C22_OneOfSeveralMatchesOverwritten ==
    Returned("upsert") /\ Cardinality(MatchedBefore) >= 2 =>
        /\ ~ret.created
        /\ Cardinality(store) = Cardinality(pre)
        /\ \E m \in MatchedBefore :
               /\ ret.entity.id = m.id
               /\ \A k \in DOMAIN args.data \cap DOMAIN m :
                      ret.entity[k] = args.data[k]
               /\ ret.entity.updated_at = now
               /\ store = (pre \ {m}) \cup {ret.entity}

\* Two entities had the role the upsert looked for; one got the new
\* timestamp, the other kept its own.
C22_Witness ==
    /\ Returned("upsert")
    /\ args.unique_fields = <<"role">>
    /\ "role" \in DOMAIN args.data
    /\ Cardinality(MatchedBefore) = 2
    /\ ret.entity \notin pre
    /\ Cardinality(store \cap pre) = 1

-----------------------------------------------------------------------------
(* C23 *)

-----------------------------------------------------------------------------
(* C24 *)

-----------------------------------------------------------------------------
(* C25 *)

\* The upsert on record passed data with none of its unique fields.
NoUniqueFieldInData ==
    \A i \in DOMAIN args.unique_fields : args.unique_fields[i] \notin DOMAIN args.data

\* C25: upsert modifies an existing entity only if it equals data on every
\* unique field present in data; unique fields missing from data are
\* dropped from the filter, so when data has none of them and the store is
\* not empty every stored entity matches and one stored entity is
\* overwritten and returned with created = FALSE, no entity being created.
C25_MissingUniqueFieldsDropped ==
    Returned("upsert") =>
        /\ \A r \in pre : r \notin store => r \in MatchedBefore
        /\ NoUniqueFieldInData /\ pre /= {} =>
              /\ MatchedBefore = pre
              /\ ~ret.created
              /\ Cardinality(store) = Cardinality(pre)
              /\ \E m \in pre :
                     /\ ret.entity.id = m.id
                     /\ \A k \in DOMAIN args.data \cap DOMAIN m :
                            ret.entity[k] = args.data[k]
                     /\ store = (pre \ {m}) \cup {ret.entity}

\* upsert(["role"], {"username": ...}) on a store of two entities: the
\* filter is empty and a stored entity is overwritten.
C25_Witness ==
    /\ Returned("upsert")
    /\ args.unique_fields = <<"role">>
    /\ DOMAIN args.data = {"username"}
    /\ Cardinality(pre) = 2
    /\ ~ret.created
    /\ ret.entity \notin pre
    /\ Cardinality(store) = 2

-----------------------------------------------------------------------------
(* C26 *)

ReadOps == {"get_by_id", "get_all", "get_by_filters", "count"}

-----------------------------------------------------------------------------
(* C27 *)

RECURSIVE Power(_, _)
Power(b, n) == IF n = 0 THEN 1 ELSE b * Power(b, n - 1)

\* C27: in retry_sync and retry_async the wait before the k-th retry is
\* delay * backoff_factor^(k-1); a wait happens only between two attempts:
\* every wait follows a failed attempt and is followed by another attempt,
\* and none follows the final failed attempt or a successful attempt.
C27_BackoffBetweenAttempts ==
    rt.pc /= "idle" =>
        /\ \A k \in 1..Len(rt.slept) :
               /\ rt.slept[k] = rt.delay * Power(rt.backoff_factor, k - 1)
               /\ rt.attempts[k] \in ListedExceptions
        /\ rt.pc \in {"try", "while"} => Len(rt.slept) = Len(rt.attempts)
        /\ rt.pc = "while" /\ rt.slept /= <<>> => rt.retry_count <= rt.max_retries
        /\ rt.pc \in {"sleep", "after", "done"} /\ rt.attempts /= <<>> =>
               Len(rt.slept) = Len(rt.attempts) - 1
        /\ rt.attempts = <<>> => rt.slept = <<>>

\* Three failed attempts with delay 2 and factor 2: waits of 2 and 4, and
\* none after the third failure.
C27_Witness ==
    /\ rt.pc = "done"
    /\ rt.delay = 2
    /\ rt.backoff_factor = 2
    /\ rt.slept = <<2, 4>>
    /\ Len(rt.attempts) = 3
    /\ rt.raised /= <<>>

\* A call that succeeded on its second attempt waited once.
C27_WitnessSuccess ==
    /\ rt.pc = "done"
    /\ rt.result /= <<>>
    /\ Len(rt.attempts) = 2
    /\ rt.slept = <<rt.delay>>

-----------------------------------------------------------------------------
(* C28 *)

\* C28: in retry_sync and retry_async only listed exceptions trigger a new
\* attempt: every attempt followed by another one raised a listed
\* exception, and an attempt that raised any other exception is the last
\* one, its exception is the one the caller gets, and no wait follows it.
C28_UnlistedExceptionPropagates ==
    rt.pc /= "idle" =>
        \A i \in 1..Len(rt.attempts) :
            /\ i < Len(rt.attempts) => rt.attempts[i] \in ListedExceptions
            /\ rt.attempts[i] \in UnlistedExceptions =>
                   /\ i = Len(rt.attempts)
                   /\ rt.pc = "done"
                   /\ rt.raised = <<[name |-> rt.attempts[i], attempt |-> i]>>
                   /\ rt.result = <<>>
                   /\ Len(rt.slept) = i - 1
                   /\ rt.retry_count = i - 1

\* The first attempt raised an unlisted exception while retries were left:
\* the caller has it after that single attempt and no wait.
C28_Witness ==
    /\ rt.pc = "done"
    /\ rt.max_retries = MaxRetries
    /\ Len(rt.attempts) = 1
    /\ rt.attempts[1] \in UnlistedExceptions
    /\ rt.raised = <<[name |-> rt.attempts[1], attempt |-> 1]>>
    /\ rt.slept = <<>>

-----------------------------------------------------------------------------
(* C29 *)

\* One object was created at most and every construction that returned
\* returned it; create_engine was assigned at most once per object; an
\* initialized object holds the configuration and the engine of the first
\* successful initialization; a construction raised ValueError exactly
\* when it passed no configuration before any successful initialization,
\* and it left the object uninitialized; no construction met an object
\* without its initialized attribute.
SingletonKept ==
    /\ Len(db.objs) <= 1
    /\ \A i \in DOMAIN db.objs :
           /\ Len(db.objs[i].engines) <= 1
           /\ db.objs[i].initialized = <<TRUE>> =>
                  /\ db.first /= <<>>
                  /\ db.objs[i].config = db.first
                  /\ db.objs[i].engines = <<db.first[1]>>
    /\ \A t \in Threads :
           db.th[t].pc = "done" =>
               /\ db.th[t].result \in {"instance", "ValueError", "ArgumentError"}
               /\ db.th[t].self = db.instance
               /\ db.th[t].result = "instance" =>
                      db.objs[db.th[t].self].initialized = <<TRUE>>
               /\ db.th[t].result = "ValueError" <=>
                      db.th[t].config = <<>> /\ db.first = <<>>
               /\ db.th[t].result = "ValueError" =>
                      db.objs[db.th[t].self].initialized = <<FALSE>>

\* C29: Database is a process-wide singleton: every construction returns
\* the same instance, engine and session factory are initialized at most
\* once, the configuration of the first successful initialization is kept
\* and a later one is ignored, and a construction without configuration
\* before any successful initialization raises ValueError and leaves the
\* instance uninitialized.
C29_ProcessWideSingleton ==
    db.started > 0 => SingletonKept

\* C29, for constructions none of which started while another one was
\* running.
C29_SequentialSingleton ==
    db.started > 0 /\ ~db.overlapped => SingletonKept

\* Three constructions one after the other: without configuration
\* (ValueError), with B (initializes), with A (returns the instance, which
\* keeps B).
C29_Witness ==
    /\ ~db.overlapped
    /\ Len(db.log) = 2
    /\ db.log[1].config = <<>> /\ db.log[1].result = "ValueError"
    /\ db.log[2].config = <<"B">> /\ db.log[2].result = "instance"
    /\ \E t \in Threads :
           /\ db.th[t].pc = "done"
           /\ db.th[t].config = <<"A">>
           /\ db.th[t].result = "instance"
           /\ db.th[t].self = db.log[2].self
    /\ db.objs[db.instance].config = <<"B">>
    /\ db.objs[db.instance].engines = <<"B">>

-----------------------------------------------------------------------------
(* C30 *)

\* The committed entities that carry the unique-key values of the two calls.
WithKeyValues ==
    Matching(cc.committed, KeyFilter(cc.unique_fields, cc.s[1].data))

BothFinished == cc.pc = "run" /\ \A i \in Sessions : cc.s[i].pc = "done"

\* C30: two upsert calls with the same unique-key values through two
\* repositories on separate sessions over one store, interleaved in any
\* way (lookup, then create or update, then commit), leave at most one
\* entity with those unique-key values once both have finished.
C30_AtMostOnePerKey ==
    BothFinished => Cardinality(WithKeyValues) <= 1

\* C30 for unique fields on which the store has a unique constraint: at
\* most one entity with the key values is left, and when both calls found
\* no match one of them failed.
C30_AtMostOnePerConstrainedKey ==
    BothFinished /\ cc.unique_fields = <<"username">> =>
        /\ Cardinality(WithKeyValues) <= 1
        /\ (\A i \in Sessions : cc.s[i].found = <<>>) =>
               \E i \in Sessions : cc.s[i].err = "DatabaseError"

\* Both calls looked up before either committed, on a key the store
\* constrains: one created the entity, the other failed.
C30_Witness ==
    /\ BothFinished
    /\ cc.unique_fields = <<"username">>
    /\ cc.before = {}
    /\ \A i \in Sessions : cc.s[i].found = <<>>
    /\ cc.s[1].created /\ cc.s[1].err = "none"
    /\ cc.s[2].err = "DatabaseError"
    /\ Cardinality(WithKeyValues) = 1

====
